---- MODULE Spec2Model ----
(***************************************************************************)
(* Model of check_db.py (the diagnostic script check_database) and of      *)
(* app.py (the Flask application bootstrap).                                *)
(*                                                                         *)
(* Strings are sequences of one-character strings, so that letter case,    *)
(* exact comparison and LIKE pattern matching are computed character by    *)
(* character.  The Term table is a set of rows; a query result is a        *)
(* sequence of rows; None is the empty sequence and a found row r is <<r>>.*)
(***************************************************************************)
EXTENDS Integers, Sequences, FiniteSets, TLC

VARIABLES
    table,       \* the Term table: a set of rows [id, term_string, status]
    Config,      \* the attributes of the imported Config class: name -> value
    app,         \* app.py's module-level app: <<>> before import, <<config>> after
    script_app,  \* check_database's local `app`: <<>> or <<config>>
    in_context,  \* inside `with app.app_context()`
    white_ice,   \* local of check_database: <<>> (None / unset) or <<row>>
    young_ice,   \* local of check_database: <<>> (None / unset) or <<row>>
    first_terms, \* result of Term.query.limit(10).all()
    ice_terms,   \* local of check_database: result of the ilike filter
    queries,     \* the queries sent to the database so far, in order
    output,      \* the lines printed to standard output so far, in order
    exit_status, \* <<>> while running, <<0>> or <<1>> once the process ended
    pc           \* the statement of the script that runs next

vars == <<table, Config, app, script_app, in_context, white_ice, young_ice,
          first_terms, ice_terms, queries, output, exit_status, pc>>

---------------------------------------------------------------------------
(* Bounds and program constants *)

\* Largest number of rows of a table the model starts from (above the limit of 10).
MaxRows == 11

\* The argument of Term.query.limit(10).
Limit == 10

---------------------------------------------------------------------------
(* Characters and strings *)

UpperChars == <<"A","B","C","D","E","F","G","H","I","J","K","L","M",
                "N","O","P","Q","R","S","T","U","V","W","X","Y","Z">>

LowerChars == <<"a","b","c","d","e","f","g","h","i","j","k","l","m",
                "n","o","p","q","r","s","t","u","v","w","x","y","z">>

IsUpperChar(c) == \E i \in 1..Len(UpperChars) : UpperChars[i] = c

IsLowerChar(c) == \E i \in 1..Len(LowerChars) : LowerChars[i] = c

\* lower() of one character: an upper-case letter maps to its lower-case
\* letter, every other character to itself.
LowerChar(c) ==
    IF IsUpperChar(c)
    THEN LowerChars[CHOOSE i \in 1..Len(UpperChars) : UpperChars[i] = c]
    ELSE c

LowerStr(s) == [i \in 1..Len(s) |-> LowerChar(s[i])]

\* Python's str.isupper(): no lower-case letter and at least one upper-case one.
IsUpper(s) ==
    /\ \A i \in 1..Len(s) : ~IsLowerChar(s[i])
    /\ \E i \in 1..Len(s) : IsUpperChar(s[i])

\* The literals of check_db.py.
WhiteIce == <<"W","h","i","t","e"," ","i","c","e">>

YoungIce == <<"Y","o","u","n","g"," ","i","c","e">>

\* Variants of the pattern: one letter short, and without the wildcards.
IcePatternShort == <<"%","i","c","%">>

IcePatternBare == <<"i","c","e">>

IcePattern == <<"%","i","c","e","%">>

\* The term strings the tables of the model draw from: the two literals, a
\* lower-case variant, an upper-case match, an embedded match and a near miss.
TermStrings ==
    << WhiteIce,
       YoungIce,
       <<"w","h","i","t","e"," ","i","c","e">>,
       <<"I","C","E">>,
       <<"n","o","t","i","c","e">>,
       <<"I","c","y">> >>

StatusValues == <<"archived", "published", "draft">>

---------------------------------------------------------------------------
(* The database queries of check_database *)

Min(a, b) == IF a <= b THEN a ELSE b

\* A set of rows as a sequence, in the order of the rows' ids.
RECURSIVE RowsInOrder(_)
RowsInOrder(S) ==
    IF S = {} THEN <<>>
    ELSE LET r == CHOOSE x \in S : \A y \in S : x.id <= y.id
         IN  <<r>> \o RowsInOrder(S \ {r})

\* SQL LIKE: % matches any run of characters, _ any one character, every
\* other pattern character itself.
RECURSIVE LikeMatch(_, _)
LikeMatch(p, s) ==
    IF p = <<>> THEN s = <<>>
    ELSE IF Head(p) = "%"
         THEN LikeMatch(Tail(p), s) \/ (s # <<>> /\ LikeMatch(p, Tail(s)))
    ELSE IF Head(p) = "_"
         THEN s # <<>> /\ LikeMatch(Tail(p), Tail(s))
    ELSE s # <<>> /\ Head(p) = Head(s) /\ LikeMatch(Tail(p), Tail(s))

\* A variant of ilike that keeps the letter case (LIKE instead of ILIKE).
like(s, p) == LikeMatch(p, s)

\* column.ilike(pattern): LIKE on the lower-cased column and pattern.
ilike(s, p) == LikeMatch(LowerStr(p), LowerStr(s))

\* A variant of filter_by that compares without regard to letter case.
filter_by_nocase(t, s) == {r \in t : LowerStr(r.term_string) = LowerStr(s)}

\* Term.query.filter_by(term_string=s): the rows whose term_string equals s
\* (character by character, letter case included).
filter_by(t, s) == {r \in t : r.term_string = s}

\* query.first(): None for no row, otherwise one of the rows (the query has
\* no ORDER BY, so which one is the database's choice).
first(S) == IF S = {} THEN {<<>>} ELSE {<<r>> : r \in S}

\* A variant of count that counts the distinct term strings.
count_distinct(t) == Cardinality({r.term_string : r \in t})

\* Term.query.count().
count(t) == Cardinality(t)

\* A variant of limit_all without the limit: all rows.
limit_all_unlimited(t, k) == {RowsInOrder(t)}

\* Term.query.limit(k).all(): k rows of the table, or all of them when it
\* has fewer (no ORDER BY: which rows is the database's choice).
limit_all(t, k) ==
    {RowsInOrder(S) : S \in {X \in SUBSET t : Cardinality(X) = Min(k, Cardinality(t))}}

\* Term.query.filter(Term.term_string.ilike(p)).all().
filter_ilike_all(t, p) == RowsInOrder({r \in t : ilike(r.term_string, p)})

---------------------------------------------------------------------------
(* Printed lines *)

\* One printed line: which print statement wrote it and the values its
\* f-string interpolated.
Line(kind, val, num, str) == [kind |-> kind, val |-> val, num |-> num, str |-> str]

\* str() of a Python bool, as an f-string interpolates it.
PyStr(b) == IF b THEN "True" ELSE "False"

\* f"- {term.term_string} (ID: {term.id}, Status: {term.status})"
TermLine(r) == Line("term", r.status, r.id, r.term_string)

\* f"- {term.term_string}"
IceLine(r) == Line("ice_term", "", 0, r.term_string)

TermLines(rows) == [i \in 1..Len(rows) |-> TermLine(rows[i])]

IceLines(rows) == [i \in 1..Len(rows) |-> IceLine(rows[i])]

---------------------------------------------------------------------------
(* The application and its configuration *)

K_DEBUG == <<"D","E","B","U","G">>

K_TESTING == <<"T","E","S","T","I","N","G">>

K_DB_URI == <<"D","B","_","U","R","I">>

K_db_uri == <<"d","b","_","u","r","i">>

\* The attributes a Config class of the model may define, with their values.
ConfigAttrs ==
    [k \in {K_DEBUG, K_DB_URI, K_db_uri} |->
        IF k = K_DEBUG THEN "True"
        ELSE IF k = K_DB_URI THEN "postgresql://yamz"
        ELSE "sqlite://"]

\* Flask(__name__): a new application, its config holding Flask's defaults.
Flask == [k \in {K_DEBUG, K_TESTING} |-> IF k = K_DEBUG THEN "None" ELSE "False"]

\* A variant of from_object that keeps a value the config already holds.
from_object_setdefault(config, obj) ==
    [k \in DOMAIN config \cup {a \in DOMAIN obj : IsUpper(a)} |->
        IF k \in DOMAIN config THEN config[k] ELSE obj[k]]

\* config.from_object(obj): every attribute of obj whose name is upper case
\* is stored in the config, replacing a value already there.
from_object(config, obj) ==
    [k \in DOMAIN config \cup {a \in DOMAIN obj : IsUpper(a)} |->
        IF k \in DOMAIN obj /\ IsUpper(k) THEN obj[k] ELSE config[k]]

\* create_app(): the factory check_db.py imports; it builds the application
\* and attaches the configuration of the Config object.
create_app(obj) == from_object(Flask, obj)

---------------------------------------------------------------------------
(* Initial states *)

\* Row number i of a table: ids are 1, 2, ...; the status follows the id.
Row(i, s) == [id |-> i, term_string |-> s, status |-> StatusValues[(i % Len(StatusValues)) + 1]]

\* A table of n rows: rows 1 and 2 hold s1 and s2, row i > 2 holds the
\* (i mod Len(TermStrings))-th term string, so that larger tables repeat
\* term strings.
Table(n, s1, s2) ==
    {Row(i, IF i = 1 THEN s1 ELSE IF i = 2 THEN s2
            ELSE TermStrings[((i - 1) % Len(TermStrings)) + 1]) : i \in 1..n}

Strings == {TermStrings[i] : i \in 1..Len(TermStrings)}

Init ==
    /\ \E n \in 0..MaxRows : \E s1, s2 \in Strings : table = Table(n, s1, s2)
    /\ \E K \in SUBSET (DOMAIN ConfigAttrs) : Config = [k \in K |-> ConfigAttrs[k]]
    /\ app = <<>>
    /\ script_app = <<>>
    /\ in_context = FALSE
    /\ white_ice = <<>>
    /\ young_ice = <<>>
    /\ first_terms = <<>>
    /\ ice_terms = <<>>
    /\ queries = <<>>
    /\ output = <<>>
    /\ exit_status = <<>>
    /\ pc = "import_app"

---------------------------------------------------------------------------
(* The statements of the script, in program order *)

\* The statements that send a query to the database, and the query each sends.
QueryPcs == {"q_white", "q_young", "q_count", "q_limit", "q_ilike"}

QueryName(p) ==
    CASE p = "q_white" -> "white"
      [] p = "q_young" -> "young"
      [] p = "q_count" -> "count"
      [] p = "q_limit" -> "limit"
      [] p = "q_ilike" -> "ilike"

\* `from app import ...`: importing app runs app.py, which builds the
\* module-level application and loads Config into its config.
ImportApp ==
    /\ pc = "import_app"
    /\ app' = <<from_object(Flask, Config)>>
    /\ pc' = "create_app"
    /\ UNCHANGED <<table, Config, script_app, in_context, white_ice, young_ice,
                   first_terms, ice_terms, queries, output, exit_status>>

\* app = create_app()
CreateApp ==
    /\ pc = "create_app"
    /\ script_app' = <<create_app(Config)>>
    /\ pc' = "app_context"
    /\ UNCHANGED <<table, Config, app, in_context, white_ice, young_ice,
                   first_terms, ice_terms, queries, output, exit_status>>

\* with app.app_context():
EnterContext ==
    /\ pc = "app_context"
    /\ in_context' = TRUE
    /\ pc' = "q_white"
    /\ UNCHANGED <<table, Config, app, script_app, white_ice, young_ice,
                   first_terms, ice_terms, queries, output, exit_status>>

\* A variant of QueryWhite that inserts the term when it is missing.
QueryWhiteGetOrCreate ==
    /\ pc = "q_white"
    /\ \E r \in first(filter_by(table, WhiteIce)) :
          IF r = <<>>
          THEN LET new == [id |-> Cardinality(table) + 1, term_string |-> WhiteIce,
                           status |-> StatusValues[1]]
               IN  white_ice' = <<new>> /\ table' = table \cup {new}
          ELSE white_ice' = r /\ table' = table
    /\ queries' = Append(queries, QueryName(pc))
    /\ pc' = "q_young"
    /\ UNCHANGED <<Config, app, script_app, in_context, young_ice,
                   first_terms, ice_terms, output, exit_status>>

\* white_ice = Term.query.filter_by(term_string='White ice').first()
QueryWhite ==
    /\ pc = "q_white"
    /\ \E r \in first(filter_by(table, WhiteIce)) : white_ice' = r
    /\ queries' = Append(queries, QueryName(pc))
    /\ pc' = "q_young"
    /\ UNCHANGED <<table, Config, app, script_app, in_context, young_ice,
                   first_terms, ice_terms, output, exit_status>>

\* young_ice = Term.query.filter_by(term_string='Young ice').first()
QueryYoung ==
    /\ pc = "q_young"
    /\ \E r \in first(filter_by(table, YoungIce)) : young_ice' = r
    /\ queries' = Append(queries, QueryName(pc))
    /\ pc' = "print_exists"
    /\ UNCHANGED <<table, Config, app, script_app, in_context, white_ice,
                   first_terms, ice_terms, output, exit_status>>

\* A variant of PrintExists that tests `is None`.
PrintExistsInverted ==
    /\ pc = "print_exists"
    /\ output' = output \o << Line("white_exists", PyStr(white_ice = <<>>), 0, <<>>),
                              Line("young_exists", PyStr(young_ice = <<>>), 0, <<>>) >>
    /\ pc' = "q_count"
    /\ UNCHANGED <<table, Config, app, script_app, in_context, white_ice, young_ice,
                   first_terms, ice_terms, queries, exit_status>>

\* print(f"White ice exists: {white_ice is not None}")
\* print(f"Young ice exists: {young_ice is not None}")
PrintExists ==
    /\ pc = "print_exists"
    /\ output' = output \o << Line("white_exists", PyStr(white_ice # <<>>), 0, <<>>),
                              Line("young_exists", PyStr(young_ice # <<>>), 0, <<>>) >>
    /\ pc' = "q_count"
    /\ UNCHANGED <<table, Config, app, script_app, in_context, white_ice, young_ice,
                   first_terms, ice_terms, queries, exit_status>>

\* print(f"Total terms in database: {Term.query.count()}")
PrintTotal ==
    /\ pc = "q_count"
    /\ queries' = Append(queries, QueryName(pc))
    /\ output' = Append(output, Line("total", "", count(table), <<>>))
    /\ pc' = "print_header"
    /\ UNCHANGED <<table, Config, app, script_app, in_context, white_ice, young_ice,
                   first_terms, ice_terms, exit_status>>

\* print("\nFirst 10 terms:")
PrintHeader ==
    /\ pc = "print_header"
    /\ output' = Append(output, Line("first_header", "", 0, <<>>))
    /\ pc' = "q_limit"
    /\ UNCHANGED <<table, Config, app, script_app, in_context, white_ice, young_ice,
                   first_terms, ice_terms, queries, exit_status>>

\* Term.query.limit(10).all(), the iterable of the first for loop
QueryLimit ==
    /\ pc = "q_limit"
    /\ \E rows \in limit_all(table, Limit) : first_terms' = rows
    /\ queries' = Append(queries, QueryName(pc))
    /\ pc' = "print_terms"
    /\ UNCHANGED <<table, Config, app, script_app, in_context, white_ice, young_ice,
                   ice_terms, output, exit_status>>

\* for term in ...: print(f"- {term.term_string} (ID: ..., Status: ...)")
PrintTerms ==
    /\ pc = "print_terms"
    /\ output' = output \o TermLines(first_terms)
    /\ pc' = "q_ilike"
    /\ UNCHANGED <<table, Config, app, script_app, in_context, white_ice, young_ice,
                   first_terms, ice_terms, queries, exit_status>>

\* ice_terms = Term.query.filter(Term.term_string.ilike('%ice%')).all()
QueryIce ==
    /\ pc = "q_ilike"
    /\ ice_terms' = filter_ilike_all(table, IcePattern)
    /\ queries' = Append(queries, QueryName(pc))
    /\ pc' = "print_ice"
    /\ UNCHANGED <<table, Config, app, script_app, in_context, white_ice, young_ice,
                   first_terms, output, exit_status>>

\* print(f"\nTerms containing 'ice': {len(ice_terms)}")
\* for term in ice_terms: print(f"- {term.term_string}")
PrintIce ==
    /\ pc = "print_ice"
    /\ output' = Append(output, Line("ice_count", "", Len(ice_terms), <<>>))
                    \o IceLines(ice_terms)
    /\ pc' = "return"
    /\ UNCHANGED <<table, Config, app, script_app, in_context, white_ice, young_ice,
                   first_terms, ice_terms, queries, exit_status>>

\* The with block and check_database() end; the interpreter exits with 0.
Return ==
    /\ pc = "return"
    /\ in_context' = FALSE
    /\ exit_status' = <<0>>
    /\ pc' = "done"
    /\ UNCHANGED <<table, Config, app, script_app, white_ice, young_ice,
                   first_terms, ice_terms, queries, output>>

\* A variant of QueryFails with the exception caught around the function
\* body, so that the interpreter exits normally.
QueryFailsCaught ==
    /\ pc \in QueryPcs
    /\ queries' = Append(queries, QueryName(pc))
    /\ in_context' = FALSE
    /\ exit_status' = <<0>>
    /\ pc' = "failed"
    /\ UNCHANGED <<table, Config, app, script_app, white_ice, young_ice,
                   first_terms, ice_terms, output>>

\* The query of the current statement raises (connection or query failure).
\* check_database has no try/except: the exception leaves the with block and
\* the function, and the interpreter exits with status 1.
QueryFails ==
    /\ pc \in QueryPcs
    /\ queries' = Append(queries, QueryName(pc))
    /\ in_context' = FALSE
    /\ exit_status' = <<1>>
    /\ pc' = "failed"
    /\ UNCHANGED <<table, Config, app, script_app, white_ice, young_ice,
                   first_terms, ice_terms, output>>

Next ==
    \/ ImportApp
    \/ CreateApp
    \/ EnterContext
    \/ QueryWhite
    \/ QueryYoung
    \/ PrintExists
    \/ PrintTotal
    \/ PrintHeader
    \/ QueryLimit
    \/ PrintTerms
    \/ QueryIce
    \/ PrintIce
    \/ Return
    \/ QueryFails

Spec == Init /\ [][Next]_vars

---------------------------------------------------------------------------
(* Vocabulary of the properties *)

\* The printed lines of one kind, in the order printed.
Printed(kind) == LET IsKind(l) == l.kind = kind IN SelectSeq(output, IsKind)

\* s contains the letters i, c, e next to each other, each in either case.
ContainsIce(s) ==
    \E i \in 1..(Len(s) - 2) :
        /\ s[i] \in {"i", "I"}
        /\ s[i + 1] \in {"c", "C"}
        /\ s[i + 2] \in {"e", "E"}

RowsWith(s) == {r \in table : r.term_string = s}

\* How many lines of a listing show the term string s.
LinesWith(lines, s) == Cardinality({i \in DOMAIN lines : lines[i].str = s})

IsPrefix(a, b) == Len(a) <= Len(b) /\ SubSeq(b, 1, Len(a)) = a

Finished == pc = "done"

---------------------------------------------------------------------------
(* Properties *)

\* C1: every "White ice exists" line reports True exactly when the table
\* holds a row whose term_string is exactly 'White ice', every "Young ice
\* exists" line likewise for 'Young ice'; a finished run has printed one of
\* each.
C1_ExistsMatchesTable ==
    /\ \A i \in DOMAIN output :
         /\ output[i].kind = "white_exists" =>
              output[i].val = (IF RowsWith(WhiteIce) # {} THEN "True" ELSE "False")
         /\ output[i].kind = "young_exists" =>
              output[i].val = (IF RowsWith(YoungIce) # {} THEN "True" ELSE "False")
    /\ Finished => Len(Printed("white_exists")) = 1 /\ Len(Printed("young_exists")) = 1

\* A finished run over a table that holds 'White ice', holds 'Young ice' only
\* in another letter case or not at all, and reported True and False.
C1_Witness ==
    /\ Finished
    /\ RowsWith(WhiteIce) # {}
    /\ RowsWith(YoungIce) = {}
    /\ Printed("white_exists")[1].val = "True"
    /\ Printed("young_exists")[1].val = "False"

\* C2: the number on the "Total terms in database" line is the number of
\* rows of the table; a finished run has printed exactly one such line.
C2_TotalIsRowCount ==
    /\ \A i \in DOMAIN output :
         output[i].kind = "total" => output[i].num = Cardinality(table)
    /\ Finished => Len(Printed("total")) = 1

\* A finished run over a table in which two rows share a term string.
C2_Witness ==
    /\ Finished
    /\ \E r, q \in table : r.id # q.id /\ r.term_string = q.term_string
    /\ Printed("total")[1].num = Cardinality(table)

\* C3: in a finished run, every row whose term_string contains "ice" in any
\* letter case is in the ice listing (a term string shared by k such rows is
\* listed at least k times) and is counted in the printed number.
C3_IceListingComplete ==
    Finished =>
        /\ \A r \in table :
             ContainsIce(r.term_string) =>
                 LinesWith(Printed("ice_term"), r.term_string)
                     >= Cardinality(RowsWith(r.term_string))
        /\ Len(Printed("ice_count")) = 1
        /\ Printed("ice_count")[1].num
               >= Cardinality({r \in table : ContainsIce(r.term_string)})

\* A finished run over a table with an upper-case 'ICE' row and a 'notice'
\* row, both listed.
C3_Witness ==
    /\ Finished
    /\ \E r \in table : r.term_string = <<"I","C","E">>
    /\ \E r \in table : r.term_string = <<"n","o","t","i","c","e">>
    /\ LinesWith(Printed("ice_term"), <<"I","C","E">>) >= 1
    /\ LinesWith(Printed("ice_term"), <<"n","o","t","i","c","e">>) >= 1

\* C4: a finished run over the empty table has printed exactly: White ice
\* exists False, Young ice exists False, total 0, the "First 10 terms"
\* header, ice count 0 -- and no term line in either listing.
C4_EmptyTableOutput ==
    (Finished /\ table = {}) =>
        output = << Line("white_exists", "False", 0, <<>>),
                    Line("young_exists", "False", 0, <<>>),
                    Line("total", "", 0, <<>>),
                    Line("first_header", "", 0, <<>>),
                    Line("ice_count", "", 0, <<>>) >>

C4_Witness == Finished /\ table = {} /\ Len(output) = 5

\* C5: no step of the script, a failing query included, changes the table.
C5_TableUnchanged == [][table' = table]_vars

\* A run that ended, normally or by a failed query, over a table with rows.
C5_Witness == pc \in {"done", "failed"} /\ table # {} /\ Len(queries) >= 1

C7_FailurePropagates ==
    /\ [](/\ pc = "failed" => exit_status # <<>> /\ exit_status[1] # 0
          /\ pc = "done" => exit_status = <<0>> /\ Len(queries) = 5
          /\ pc \notin {"done", "failed"} => exit_status = <<>>)
    /\ [][/\ pc = "failed" => (queries' = queries /\ output' = output /\ pc' = pc)
          /\ pc' = "failed" => output' = output
          /\ IsPrefix(output, output')]_vars

\* The ilike query failed after the earlier report lines were printed.
C7_Witness ==
    /\ pc = "failed"
    /\ queries[Len(queries)] = "ilike"
    /\ Len(Printed("total")) = 1
    /\ Len(Printed("ice_count")) = 0

\* C8: in a finished run over a table of n rows the "First 10 terms" listing
\* has min(10, n) lines, never more than 10; every line shows the
\* term_string, id and status of a row of the table, and no two lines show
\* the same row.
C8_FirstTermsListing ==
    Finished =>
        LET lines == Printed("term")
            n == Cardinality(table)
        IN  /\ Len(lines) = (IF n < 10 THEN n ELSE 10)
            /\ \A i \in DOMAIN lines :
                 \E r \in table : /\ r.id = lines[i].num
                                  /\ r.term_string = lines[i].str
                                  /\ r.status = lines[i].val
            /\ \A i, j \in DOMAIN lines : i # j => lines[i].num # lines[j].num

\* A finished run over a table of more than 10 rows.
C8_Witness == Finished /\ Cardinality(table) > 10 /\ Len(Printed("term")) = 10

\* C9: in a finished run every line of the ice listing shows a term string
\* that contains "ice" in some letter case, a term string is listed as many
\* times as there are rows holding it, and the printed number is the number
\* of lines of the listing.
C9_IceListingExact ==
    Finished =>
        LET lines == Printed("ice_term")
        IN  /\ \A i \in DOMAIN lines :
                 /\ ContainsIce(lines[i].str)
                 /\ LinesWith(lines, lines[i].str)
                        = Cardinality(RowsWith(lines[i].str))
            /\ \A r \in table :
                 ContainsIce(r.term_string) => LinesWith(lines, r.term_string) = 
                                                   Cardinality(RowsWith(r.term_string))
            /\ Len(Printed("ice_count")) = 1
            /\ Printed("ice_count")[1].num = Len(lines)

\* A finished run over a table with a near miss ('Icy') and a term string
\* that two matching rows share.
C9_Witness ==
    /\ Finished
    /\ \E r \in table : r.term_string = <<"I","c","y">>
    /\ \E r, q \in table :
         r.id # q.id /\ r.term_string = q.term_string /\ ContainsIce(r.term_string)
    /\ Len(Printed("ice_term")) >= 2

\* C10: in a finished run, a True existence line implies an ice count of at
\* least 1, two True lines an ice count of at least 2; the ice count is at
\* most the total; and over a table whose only row is 'white ice' the run
\* reports 'White ice exists: False' and an ice count of 1.
C10_FiguresConsistent ==
    Finished =>
        LET white == Printed("white_exists")[1].val
            young == Printed("young_exists")[1].val
            ice == Printed("ice_count")[1].num
            total == Printed("total")[1].num
        IN  /\ (white = "True" \/ young = "True") => ice >= 1
            /\ (white = "True" /\ young = "True") => ice >= 2
            /\ ice <= total
            /\ (\E r \in table :
                   /\ table = {r}
                   /\ r.term_string = <<"w","h","i","t","e"," ","i","c","e">>)
                 => white = "False" /\ ice = 1

\* A finished run over the table whose only row is 'white ice'.
C10_Witness ==
    /\ Finished
    /\ Cardinality(table) = 1
    /\ \A r \in table : r.term_string = <<"w","h","i","t","e"," ","i","c","e">>
    /\ Printed("white_exists")[1].val = "False"
    /\ Printed("ice_count")[1].num = 1

====
